---- MODULE Spec2Model ----
(***************************************************************************)
(* Order lifecycle of the swap front end: OrderManager                     *)
(* (src/services/orderManager.ts) driving JupiterService                   *)
(* (src/services/jupiterService.ts).                                       *)
(*                                                                         *)
(* The manager runs on one JavaScript thread.  Every async method is cut   *)
(* at its `await`: the part before the await is one action (the call),     *)
(* the part after it is a second action (the resumption) that consumes     *)
(* the response of the external service.  Between the two, any other call  *)
(* or resumption may run.  Calls suspended at an await are kept in the     *)
(* bag `tasks`.                                                            *)
(*                                                                         *)
(* Strings that the code concatenates are sequences of chunks, so that     *)
(* the empty string is << >> and `a + b` is a \o b.  Optional fields are   *)
(* << >> when absent and << v >> when set.                                 *)
(***************************************************************************)
EXTENDS Integers, Sequences, FiniteSets, Bags, TLC

\* --------------------------------------------------------------- bounds
MaxOrders == 1      \* createOrder calls that reach the store
MaxCalls  == 2      \* calls suspended at an await at the same time
MaxTime   == 1      \* last value of the millisecond clock

\* --------------------------------------------------------------- inputs
Users          == {"u1", "u2"}
InputTokens    == {"", "SOL"}
OutputTokens   == {"SOL", "USDC"}
Amounts        == {0 - 1, 0, 150, 1000000}
Providers      == {"", "bad", "LP"}
RefundInputs   == {"", "bad", "u2"}
RateInputs     == {""}
WellFormedKeys == {"u1", "u2", "LP", "SOL", "USDC", "TREASURY"}
TreasuryInputs == {"", "bad", "TREASURY"}
FeeRates       == {100}

AllParams ==
    [inputToken : InputTokens, outputToken : OutputTokens,
     inputAmount : Amounts, rate : RateInputs,
     liquidityProvider : Providers, refundAddress : RefundInputs]

\* a well-formed request, and the fields in which p differs from it
Baseline ==
    [inputToken |-> "SOL", outputToken |-> "USDC", inputAmount |-> 150, rate |-> "",
     liquidityProvider |-> "LP", refundAddress |-> ""]
Deviations(p) == {f \in DOMAIN Baseline : p[f] # Baseline[f]}

\* the parameters createOrder is called with: those that differ from the
\* well-formed request in at most one field
OrderCreationParams == {p \in AllParams : Cardinality(Deviations(p)) <= 1}

\* --------------------------------------------------------------- values
Undefined == << >>
Some(v)   == << v >>
Str(s)    == IF s = "" THEN << >> ELSE << s >>

Digits == <<"0", "1", "2", "3", "4", "5", "6", "7", "8", "9">>
IsDigit(c) == \E i \in 1..10 : Digits[i] = c
DigitVal(c) == (CHOOSE i \in 1..10 : Digits[i] = c) - 1

NaN == 0 - 1

RECURSIVE ParseDigits(_, _)
ParseDigits(s, acc) ==
    IF s = << >> \/ ~IsDigit(Head(s)) THEN acc
    ELSE ParseDigits(Tail(s), acc * 10 + DigitVal(Head(s)))

\* parseInt(string): the leading decimal digits, NaN when there is none
parseInt(s) ==
    IF s = << >> \/ ~IsDigit(Head(s)) THEN NaN ELSE ParseDigits(s, 0)

\* the JavaScript quotient x / d of two integers, kept exact:
\* int + frac / d  with 0 <= frac < d
Divide(x, d) == [int |-> x \div d, frac |-> x % d]

\* new PublicKey(s) throws unless s is a well-formed address
IsPublicKey(s) == s \in WellFormedKeys

NoId == [t |-> 0, n |-> 0]

VARIABLES
    orders,          \* OrderManager.orders : id -> Order
    slots,           \* the keys of OrderManager.orders, in insertion order
    detached,        \* Order objects that left the Map and are still referenced
    orderIdCounter,  \* OrderManager.orderIdCounter
    protocolFeeBps,  \* OrderManager.protocolFeeBps
    treasuryWallet,  \* OrderManager.treasuryWallet
    mirror,          \* localStorage['jupiter_orders']
    now,             \* last reading of Date.now()
    tasks,           \* calls suspended at an await
    signedTx,        \* bag: order id -> swap transactions signed by the wallet
    submittedTx,     \* bag: order id -> swap transactions accepted by sendTransaction
    handle,          \* the Order object a caller got from a query and kept
    swap,            \* an executeOrderSwap call followed stage by stage
    ret              \* what the step just taken delivered to its caller

vars == <<orders, slots, detached, orderIdCounter, protocolFeeBps, treasuryWallet,
          mirror, now, tasks, signedTx, submittedTx, handle, swap, ret>>

\* ------------------------------------------------- external responses
\* What the routing service, the wallet and the network may answer.
\* kind "ok": the call resolved; "http": a non-2xx HTTP status;
\* "throw": the call rejected.  msg is the error text that came with it.
Resp(kind, msg, body) == [kind |-> kind, msg |-> msg, body |-> body]

NoBody == [outAmount |-> << >>, priceImpactPct |-> << >>]

\* (outAmount, priceImpactPct) pairs the routing service may report
Priced == { [outAmount |-> <<"4", "2">>, priceImpactPct |-> <<"0.1">>],
            [outAmount |-> <<"0", "7">>, priceImpactPct |-> <<"12.5">>] }

Malformed == { [outAmount |-> << >>, priceImpactPct |-> <<"0.1">>] }

ServiceErrors == { <<"No route">> }
ThrowErrors   == { <<"timeout">> }
WalletErrors  == { << >> }

QuoteResponses ==
    { Resp("ok", << >>, b) : b \in Priced \cup Malformed }
    \cup { Resp("http", e, NoBody) : e \in ServiceErrors }

\* the JupiterQuote object built from a /quote reply to a request
Quote(inputMint, outputMint, amount, body) ==
    [inputMint |-> Str(inputMint), outputMint |-> Str(outputMint),
     inAmount |-> << amount >>, outAmount |-> body.outAmount,
     priceImpactPct |-> body.priceImpactPct]

\* ------------------------------------------------------ JupiterService
Ok(v)    == [ok |-> TRUE, value |-> v, error |-> << >>]
Err(msg) == [ok |-> FALSE, value |-> << >>, error |-> msg]

\* JupiterService.validateQuote: << >> when the quote passes, else the
\* message of the error thrown
validateQuote(quote) ==
    IF quote.inputMint = << >> \/ quote.outputMint = << >>
    THEN <<"Invalid quote: missing mint addresses">>
    ELSE IF quote.inAmount = << >> \/ quote.outAmount = << >>
    THEN <<"Invalid quote: missing amounts">>
    ELSE << >>

\* JupiterService.getQuote, given the reply of the routing service
getQuote(inputMint, outputMint, amount, resp) ==
    LET quote == Quote(inputMint, outputMint, amount, resp.body)
        thrown ==
            IF resp.kind = "throw" THEN Some(resp.msg)
            ELSE IF resp.kind = "http"
            THEN Some(IF resp.msg # << >> THEN resp.msg
                      ELSE <<"HTTP error! status: 500">>)
            ELSE IF validateQuote(quote) # << >>
            THEN Some(validateQuote(quote))
            ELSE Undefined
    IN  IF thrown = Undefined THEN Ok(quote)
        ELSE Err(<<"Failed to get quote: ">> \o thrown[1])

\* /swap replies: the body is the base64 payload, "tx" when it decodes to
\* a transaction and "garbage" when it does not
BuildResponses ==
    { Resp("ok", << >>, b) : b \in {"tx", "garbage"} }
    \cup { Resp("http", e, "") : e \in ServiceErrors }

\* wallet.signTransaction, connection.sendTransaction
SignResponses == { Resp("ok", << >>, "") } \cup { Resp("throw", e, "") : e \in WalletErrors }
SendResponses == { Resp("ok", << >>, "") } \cup { Resp("throw", e, "") : e \in ThrowErrors }
\* connection.confirmTransaction: the body is confirmation.value.err
ConfirmResponses ==
    { Resp("ok", << >>, b) : b \in {"null", "InstructionError"} }
    \cup { Resp("throw", e, "") : e \in ThrowErrors }

OkResp == Resp("ok", << >>, "")

\* JupiterService.createSwapTransaction, given the reply of the service
createSwapTransaction(resp) ==
    IF resp.kind = "ok" THEN Ok(resp.body)
    ELSE Err(<<"Failed to create swap transaction: ">> \o
             (IF resp.kind = "http" /\ resp.msg = << >>
              THEN <<"HTTP error! status: 500">> ELSE resp.msg))

\* TransactionResult, with what the call did on the way: whether the
\* wallet signed a transaction and whether the network accepted one
Result(success, signature, error, signed, submitted) ==
    [success |-> success, signature |-> signature, error |-> error,
     outputAmount |-> Undefined, signed |-> signed, submitted |-> submitted]

\* JupiterService.executeSwap: sig is the signature sendTransaction returns
executeSwap(payload, sign, send, confirm, sig) ==
    IF payload # "tx"
    THEN Result(FALSE, << >>, Some(<<"Failed to deserialize">>), FALSE, FALSE)
    ELSE IF sign.kind # "ok"
    THEN Result(FALSE, << >>, Some(sign.msg), FALSE, FALSE)
    ELSE IF send.kind # "ok"
    THEN Result(FALSE, << >>, Some(send.msg), TRUE, FALSE)
    ELSE IF confirm.kind # "ok"
    THEN Result(FALSE, << >>, Some(confirm.msg), TRUE, TRUE)
    ELSE IF confirm.body # "null"
    THEN Result(FALSE, << >>,
                Some(<<"Transaction failed: ">> \o << confirm.body >>), TRUE, TRUE)
    ELSE Result(TRUE, sig, Undefined, TRUE, TRUE)

\* what the services answer during one executeOrderSwap
SwapReplies ==
    [quote : QuoteResponses, build : BuildResponses, sign : SignResponses,
     send : SendResponses, confirm : ConfirmResponses]

\* replies that differ only in the stages the call reaches: a stage it
\* never reaches is given the reply of a successful swap
Stages == <<"quote", "build", "sign", "send", "confirm">>
Smooth ==
    [quote |-> Resp("ok", << >>, [outAmount |-> <<"4", "2">>, priceImpactPct |-> <<"0.1">>]),
     build |-> Resp("ok", << >>, "tx"),
     sign |-> OkResp, send |-> OkResp,
     confirm |-> Resp("ok", << >>, "null")]
Reaches(e, i) ==
    \A j \in 1..(i - 1) :
        /\ e[Stages[j]].kind = "ok"
        /\ Stages[j] = "quote" => e.quote.body \in Priced
        /\ Stages[j] = "build" => e.build.body = "tx"
SwapScenarios ==
    { e \in SwapReplies :
        \A i \in 2..5 : Reaches(e, i) \/ e[Stages[i]] = Smooth[Stages[i]] }

\* JupiterService.executeOrderSwap
executeOrderSwap(order, e, sig) ==
    LET q == getQuote(order.inputMint, order.outputMint, order.inputAmount, e.quote)
        derived == /\ IsPublicKey(order.inputMint)
                   /\ IsPublicKey(order.treasuryWallet)
                   /\ IsPublicKey(order.outputMint)
                   /\ IsPublicKey(order.liquidityProvider)
        tx == createSwapTransaction(e.build)
    IN  IF ~q.ok THEN Result(FALSE, << >>, Some(q.error), FALSE, FALSE)
        ELSE IF ~derived
        THEN Result(FALSE, << >>, Some(<<"Invalid public key input">>), FALSE, FALSE)
        ELSE IF ~tx.ok THEN Result(FALSE, << >>, Some(tx.error), FALSE, FALSE)
        ELSE [ executeSwap(tx.value, e.sign, e.send, e.confirm, sig)
               EXCEPT !.outputAmount = Some(q.value.outAmount) ]

\* -------------------------------------------------------- OrderManager
EmptyMap == [x \in {} |-> x]

\* `a || b` on strings
OrElse(a, b) == IF a # << >> THEN a ELSE b

\* validateOrderParams without the check that the two tokens differ
validateOrderParamsSameToken(params) ==
    IF params.inputToken = "" \/ params.outputToken = ""
    THEN <<"Input and output tokens are required">>
    ELSE IF params.inputAmount = 0 \/ params.inputAmount <= 0
    THEN <<"Input amount must be greater than 0">>
    ELSE IF params.liquidityProvider = ""
    THEN <<"Liquidity provider address is required">>
    ELSE IF ~IsPublicKey(params.liquidityProvider)
    THEN <<"Invalid liquidity provider address">>
    ELSE IF params.refundAddress # "" /\ ~IsPublicKey(params.refundAddress)
    THEN <<"Invalid refund address">>
    ELSE << >>

\* validateOrderParams that looks at the addresses before the amount
validateOrderParamsAddressesFirst(params) ==
    IF params.inputToken = "" \/ params.outputToken = ""
    THEN <<"Input and output tokens are required">>
    ELSE IF params.inputToken = params.outputToken
    THEN <<"Input and output tokens cannot be the same">>
    ELSE IF params.liquidityProvider = ""
    THEN <<"Liquidity provider address is required">>
    ELSE IF ~IsPublicKey(params.liquidityProvider)
    THEN <<"Invalid liquidity provider address">>
    ELSE IF params.refundAddress # "" /\ ~IsPublicKey(params.refundAddress)
    THEN <<"Invalid refund address">>
    ELSE IF params.inputAmount = 0 \/ params.inputAmount <= 0
    THEN <<"Input amount must be greater than 0">>
    ELSE << >>

\* OrderManager.validateOrderParams: << >> when the parameters pass, else
\* the message of the error thrown
validateOrderParams(params) ==
    IF params.inputToken = "" \/ params.outputToken = ""
    THEN <<"Input and output tokens are required">>
    ELSE IF params.inputToken = params.outputToken
    THEN <<"Input and output tokens cannot be the same">>
    ELSE IF params.inputAmount = 0 \/ params.inputAmount <= 0
    THEN <<"Input amount must be greater than 0">>
    ELSE IF params.liquidityProvider = ""
    THEN <<"Liquidity provider address is required">>
    ELSE IF ~IsPublicKey(params.liquidityProvider)
    THEN <<"Invalid liquidity provider address">>
    ELSE IF params.refundAddress # "" /\ ~IsPublicKey(params.refundAddress)
    THEN <<"Invalid refund address">>
    ELSE << >>

\* OrderManager.generateOrderId: `order_${Date.now()}_${counter}`
OrderId(time, counter) == [t |-> time, n |-> counter]

\* the expected output read from the wrong amount field of the quote
QuotedOutputFromInput(quote) == quote.inAmount[1]

\* parseInt(quote.outAmount) (orderManger.ts 71)
QuotedOutput(quote) == parseInt(quote.outAmount)

\* the Order object createOrder builds (orderManger.ts 59-81)
NewOrder(params, user, quote, orderId, time, feeBps) ==
    [id |-> orderId,
     inputToken |-> params.inputToken,
     outputToken |-> params.outputToken,
     inputAmount |-> params.inputAmount,
     expectedOutputAmount |-> QuotedOutput(quote),
     actualOutputAmount |-> Undefined,
     rate |-> OrElse(Str(params.rate), <<"Market Rate">>),
     creator |-> user,
     refundAddress |-> IF params.refundAddress # "" THEN params.refundAddress ELSE user,
     liquidityProvider |-> params.liquidityProvider,
     status |-> "pending",
     timestamp |-> time,
     quote |-> quote,
     transactionSignature |-> Undefined,
     errorMessage |-> Undefined,
     protocolFee |-> Divide(params.inputAmount * feeBps, 10000),
     priceImpact |-> quote.priceImpactPct]

\* FinishExecution recording the error of the result as it comes, with no
\* fallback text when it is empty
FinishExecutionNoFallback(order, result) ==
    IF result.success
    THEN [order |->
            [order EXCEPT
                !.transactionSignature = Some(result.signature),
                !.actualOutputAmount =
                    IF result.outputAmount # Undefined /\ result.outputAmount[1] # << >>
                    THEN Some(parseInt(result.outputAmount[1]))
                    ELSE Some(order.expectedOutputAmount),
                !.status = "fulfilled"],
          raised |-> Undefined]
    ELSE [order |-> [order EXCEPT !.status = "failed", !.errorMessage = result.error],
          raised |-> result.error]

\* what executeOrder does with the result of the swap (orderManger.ts
\* 124-154): the order as it leaves it, and the error it raises, if any
FinishExecution(order, result) ==
    LET error == IF result.error = Undefined THEN << >> ELSE result.error[1]
    IN  IF result.success
        THEN [order |->
                [order EXCEPT
                    !.transactionSignature = Some(result.signature),
                    !.actualOutputAmount =
                        IF result.outputAmount # Undefined /\ result.outputAmount[1] # << >>
                        THEN Some(parseInt(result.outputAmount[1]))
                        ELSE Some(order.expectedOutputAmount),
                    !.status = "fulfilled"],
              raised |-> Undefined]
        ELSE LET thrown == OrElse(error, <<"Swap execution failed">>)
                 first  == [order EXCEPT
                              !.status = "failed",
                              !.errorMessage = Some(OrElse(error, <<"Unknown execution error">>))]
             IN  [order |-> [first EXCEPT !.status = "failed",
                                          !.errorMessage = Some(thrown)],
                  raised |-> Some(thrown)]

\* ApplyQuote that also recomputes the fee, with the slippage in place of
\* the fee rate
ApplyQuoteRecomputingFee(order, newQuote) ==
    [order EXCEPT !.quote = newQuote,
                  !.expectedOutputAmount = parseInt(newQuote.outAmount),
                  !.priceImpact = newQuote.priceImpactPct,
                  !.protocolFee = Divide(order.inputAmount * 50, 10000)]

\* ApplyQuote that leaves the price impact of the old quote
ApplyQuoteKeepingImpact(order, newQuote) ==
    [order EXCEPT !.quote = newQuote,
                  !.expectedOutputAmount = parseInt(newQuote.outAmount)]

\* what updateOrderQuote writes into the order (orderManger.ts 233-236)
ApplyQuote(order, newQuote) ==
    [order EXCEPT !.quote = newQuote,
                  !.expectedOutputAmount = parseInt(newQuote.outAmount),
                  !.priceImpact = newQuote.priceImpactPct]

\* -------------------------------------------------------------- objects
\* `orders` gives the Order object the Map holds under each id, `slots` the
\* keys of the Map in insertion order.  A call suspended at an await keeps
\* a reference to the object it read with this.orders.get; the object may
\* leave the Map meanwhile (clear, import, overwrite).  An object is known
\* by the key it was stored under and a number that tells it from the other
\* objects that were stored under that key; objects that left the Map and
\* are still referenced are kept in `detached`.
Ref(oid, born) == [id |-> oid, born |-> born]
NoRef == Ref(NoId, 0)

Memory == [orders |-> orders, slots |-> slots, detached |-> detached]

SlotOf(m, oid) == CHOOSE i \in 1..Len(m.slots) : m.slots[i].id = oid
StoredRef(m, oid) == m.slots[SlotOf(m, oid)]
IsStored(m, ref) == ref.id \in DOMAIN m.orders /\ StoredRef(m, ref.id) = ref

\* the object behind a reference
Object(m, ref) == IF IsStored(m, ref) THEN m.orders[ref.id] ELSE m.detached[ref]

Without(f, x) == [y \in DOMAIN f \ {x} |-> f[y]]

\* a number for a new object under oid, unused by the objects under oid
\* that are still around
Fresh(m, oid) ==
    LET used == {r.born : r \in {x \in DOMAIN m.detached : x.id = oid}}
                \cup (IF oid \in DOMAIN m.orders THEN {StoredRef(m, oid).born} ELSE {})
    IN  CHOOSE b \in 0..Cardinality(used) :
            b \notin used /\ \A c \in 0..Cardinality(used) : c \notin used => b <= c

\* Write that puts the new status on every order of the Map as well
WriteStatusToAll(m, ref, value) ==
    LET all == [id \in DOMAIN m.orders |->
                   [m.orders[id] EXCEPT !.status = value.status]]
    IN  IF ref.id \in DOMAIN m.orders /\ m.slots[SlotOf(m, ref.id)] = ref
        THEN [m EXCEPT !.orders = [all EXCEPT ![ref.id] = value]]
        ELSE [m EXCEPT !.orders = all, !.detached = (ref :> value) @@ m.detached]

\* assignments to the fields of the object behind ref, leaving it as value
Write(m, ref, value) ==
    IF IsStored(m, ref) THEN [m EXCEPT !.orders[ref.id] = value]
    ELSE [m EXCEPT !.detached = (ref :> value) @@ m.detached]

\* this.orders.set(ref.id, object): an existing key keeps its place and
\* gives up the object it held, a new key goes last
MapSet(m, ref) ==
    IF IsStored(m, ref) THEN m
    ELSE IF ref.id \in DOMAIN m.orders
    THEN [orders |-> [m.orders EXCEPT ![ref.id] = m.detached[ref]],
          slots |-> [m.slots EXCEPT ![SlotOf(m, ref.id)] = ref],
          detached |-> (StoredRef(m, ref.id) :> m.orders[ref.id])
                           @@ Without(m.detached, ref)]
    ELSE [orders |-> (ref.id :> m.detached[ref]) @@ m.orders,
          slots |-> Append(m.slots, ref),
          detached |-> Without(m.detached, ref)]

\* the references that suspended calls and the caller hold
Held(tks, h) ==
    {Ref(t.oid, t.born) : t \in {x \in BagToSet(tks) : x.oid # NoId}}
    \cup (IF h = NoRef THEN {} ELSE {h})

\* objects nobody refers to are gone
Collect(det, tks, h) == [r \in DOMAIN det \cap Held(tks, h) |-> det[r]]

\* this.orders.clear(), or this.orders = new Map(): every object leaves the
\* Map; the ones suspended calls or the caller refer to stay around
MapClear(m, tks, h) ==
    [orders |-> EmptyMap, slots |-> << >>,
     detached |-> [r \in (DOMAIN m.detached \cup {m.slots[i] : i \in 1..Len(m.slots)})
                          \cap Held(tks, h) |-> Object(m, r)]]

\* -------------------------------------------------------------- storage
\* A text handed to JSON.parse, or read from localStorage:
\*   "entries"   the JSON of an array of [key, order] pairs
\*   "null"      nothing stored (getItem gives null); as an argument, 'null'
\*   "truncated" not JSON: JSON.parse throws
\*   "object"    JSON of a value that is no list of pairs: new Map throws
Text(kind, entries) == [kind |-> kind, entries |-> entries]
NullText   == Text("null", << >>)
Truncated  == Text("truncated", << >>)
NotEntries == Text("object", << >>)

OrderFields ==
    {"id", "inputToken", "outputToken", "inputAmount", "expectedOutputAmount",
     "actualOutputAmount", "rate", "creator", "refundAddress", "liquidityProvider",
     "status", "timestamp", "quote", "transactionSignature", "errorMessage",
     "protocolFee", "priceImpact"}
OptionalFields == {"actualOutputAmount", "transactionSignature", "errorMessage"}
NumberFields   == {"inputAmount", "expectedOutputAmount", "timestamp"}

\* JSON has no NaN: JSON.stringify writes it as null
JsonNull == 0 - 2
JsonNumber(x) == IF x = NaN THEN JsonNull ELSE x

\* JSON.stringify of an Order: a property that is undefined is left out
stringify(order) ==
    [f \in DOMAIN order \ {g \in OptionalFields : order[g] = Undefined} |->
        IF f \in NumberFields THEN JsonNumber(order[f])
        ELSE IF f = "actualOutputAmount" THEN JsonNumber(order[f][1])
        ELSE IF f \in OptionalFields THEN order[f][1]
        ELSE order[f]]

\* parse that does not read the optional properties back
parseRequiredOnly(json) ==
    [f \in OrderFields |->
        IF f \notin DOMAIN json \/ f \in OptionalFields THEN Undefined
        ELSE json[f]]

\* JSON.parse of an Order: a property that is not there reads as undefined
parse(json) ==
    [f \in OrderFields |->
        IF f \notin DOMAIN json THEN Undefined
        ELSE IF f \in OptionalFields THEN Some(json[f])
        ELSE json[f]]

\* JSON.stringify(Array.from(this.orders.entries()))
Entries(m) ==
    [i \in 1..Len(m.slots) |->
        [key |-> m.slots[i].id, value |-> stringify(m.orders[m.slots[i].id])]]

\* new Map(ordersArray), built on what is left of m once the Map it held
\* is dropped
RECURSIVE MapFrom(_, _)
MapFrom(entries, m) ==
    IF entries = << >> THEN m
    ELSE LET ref == Ref(Head(entries).key, Fresh(m, Head(entries).key))
         IN  MapFrom(Tail(entries),
                     MapSet(Write(m, ref, parse(Head(entries).value)), ref))

\* Math.max(0, ...keys.map(id => parseInt(id.split('_')[2]) || 0))
MaxSuffix(ids) ==
    IF ids = {} THEN 0
    ELSE CHOOSE n \in {id.n : id \in ids} : \A id \in ids : id.n <= n

\* persistOrders that writes the pending orders only
persistPendingOrders(m) ==
    LET Pending(entry) == entry.value.status = "pending"
    IN  Text("entries", SelectSeq(Entries(m), Pending))

\* OrderManager.persistOrders: the text written to localStorage
persistOrders(m) == Text("entries", Entries(m))

\* OrderManager.exportOrders
exportOrders(m) == Text("entries", Entries(m))

EmptyMemory == [orders |-> EmptyMap, slots |-> << >>, detached |-> EmptyMap]

\* loadPersistedOrders that lets the error of an unreadable mirror out
loadPersistedOrdersUncaught(stored) ==
    IF stored.kind = "null"
    THEN [memory |-> EmptyMemory, counter |-> 0, raised |-> FALSE]
    ELSE IF stored.kind = "entries"
    THEN LET loaded == MapFrom(stored.entries, EmptyMemory)
         IN  [memory |-> loaded, counter |-> MaxSuffix(DOMAIN loaded.orders),
              raised |-> FALSE]
    ELSE [memory |-> EmptyMemory, counter |-> 0, raised |-> TRUE]

\* OrderManager.loadPersistedOrders, run by the constructor of a new
\* manager: the Map and the counter it leaves, and whether it raises
loadPersistedOrders(stored) ==
    IF stored.kind = "null"
    THEN [memory |-> EmptyMemory, counter |-> 0, raised |-> FALSE]
    ELSE IF stored.kind = "entries"
    THEN LET loaded == MapFrom(stored.entries, EmptyMemory)
         IN  [memory |-> loaded, counter |-> MaxSuffix(DOMAIN loaded.orders),
              raised |-> FALSE]
    ELSE [memory |-> EmptyMemory, counter |-> 0, raised |-> FALSE]

\* ---------------------------------------------------------------- calls
NoParams == [inputToken |-> "", outputToken |-> "", inputAmount |-> 0, rate |-> "",
             liquidityProvider |-> "", refundAddress |-> ""]

\* a call suspended at an await: its arguments, the object it read from the
\* Map (oid, born), and for refreshPendingQuotes the pending orders the
\* sweep started with, the ones it has called updateOrderQuote on, and the
\* ones still to do (the first of which it is waiting for)
Task(op, oid, born, params, user) ==
    [op |-> op, oid |-> oid, born |-> born, params |-> params, user |-> user,
     queue |-> << >>, sweep |-> << >>, tried |-> << >>]

Suspend(t) == tasks (+) SetToBag({t})
Resume(t)  == tasks (-) SetToBag({t})
Suspended  == BagToSet(tasks)
CanSuspend == BagCardinality(tasks) < MaxCalls

\* a finished call: its arguments (params and caller for createOrder, oid
\* for the others, oid and caller for cancelOrder),
\* how it ended, for executeOrder the TransactionResult it got from
\* executeOrderSwap, and for refreshPendingQuotes the orders it called
\* updateOrderQuote on
NoSwap == Result(FALSE, << >>, Undefined, FALSE, FALSE)
Call(op, params, oid, caller) ==
    [op |-> op, params |-> params, oid |-> oid, caller |-> caller,
     outcome |-> "none", error |-> << >>, awaited |-> FALSE, swap |-> NoSwap,
     swept |-> << >>, value |-> << >>]
NoRet == Call("none", NoParams, NoId, "")
Awaited(call)  == [call EXCEPT !.awaited = TRUE]
Returned(call) == [call EXCEPT !.outcome = "ok"]
Raised(call, msg) == [call EXCEPT !.outcome = "error", !.error = msg]

\* the swap pipeline when no executeOrderSwap is being followed.
\*   stage    what the call waits for: "quote", "build", "sign", "send",
\*            "confirm"; "idle" before a call and "returned" after it
\*   oid      the order executeOrder called it for, if it did
\*   done     the stages started, in the order they were started
\*   replies  what the services answered so far
\*   entered  executeSwap has been called
\*   inner    what executeSwap returned, once it has
\*   result   what executeOrderSwap returned, once it has
NoPipeline ==
    [stage |-> "idle", oid |-> NoId, order |-> NoParams, replies |-> Smooth,
     sig |-> << >>,
     done |-> << >>, entered |-> FALSE, inner |-> NoSwap, result |-> NoSwap]

Init ==
    /\ orders = EmptyMap
    /\ slots = << >>
    /\ detached = EmptyMap
    /\ orderIdCounter = 0
    /\ protocolFeeBps \in FeeRates
    /\ treasuryWallet \in TreasuryInputs
    /\ mirror = NullText
    /\ now = 0
    /\ tasks = EmptyBag
    /\ signedTx = EmptyBag
    /\ submittedTx = EmptyBag
    /\ handle = NoRef
    /\ swap = NoPipeline
    /\ ret = NoRet

InFlight(op) ==
    BagCardinality([t \in {x \in DOMAIN tasks : x.op = op} |-> tasks[t]])

\* the Map, its keys and the objects that left it, after a step that
\* leaves them as m and the suspended calls as tks
Becomes(m, tks) ==
    /\ orders' = m.orders
    /\ slots' = m.slots
    /\ detached' = Collect(m.detached, tks, handle)

\* createOrder up to its await (orderManger.ts 41-57)
createOrder(params, user) ==
    LET invalid == validateOrderParams(params)
        thrown  == IF invalid # << >> THEN invalid
                   ELSE IF treasuryWallet = "" THEN <<"Treasury wallet not configured">>
                   ELSE << >>
    IN  /\ IF thrown # << >>
           THEN /\ ret' = Raised(Call("createOrder", params, NoId, user),
                                 <<"Failed to create order: ">> \o thrown)
                /\ UNCHANGED tasks
           ELSE /\ CanSuspend
                /\ tasks' = Suspend(Task("createOrder", NoId, 0, params, user))
                /\ ret' = NoRet
        /\ UNCHANGED <<orders, slots, detached, orderIdCounter, protocolFeeBps,
                       treasuryWallet, mirror, now, signedTx, submittedTx,
                       handle, swap>>

\* createOrder from the reply of the quote on (orderManger.ts 59-95);
\* idTime and stamp are the two readings of Date.now()
createOrderResume(task, resp, idTime, stamp) ==
    LET q == getQuote(task.params.inputToken, task.params.outputToken,
                      task.params.inputAmount, resp)
        orderId == OrderId(idTime, orderIdCounter + 1)
        order == NewOrder(task.params, task.user, q.value, orderId, stamp,
                          protocolFeeBps)
        ref == Ref(orderId, Fresh(Memory, orderId))
        m == MapSet(Write(Memory, ref, order), ref)
    IN  /\ task.op = "createOrder"
        /\ tasks' = Resume(task)
        /\ IF ~q.ok
           THEN /\ ret' = Raised(Awaited(Call("createOrder", task.params, NoId, task.user)),
                                 <<"Failed to create order: ">> \o q.error)
                /\ UNCHANGED <<orders, slots, detached, orderIdCounter, mirror, now>>
           ELSE /\ orderIdCounter' = orderIdCounter + 1
                /\ Becomes(m, tasks')
                /\ mirror' = persistOrders(m)
                /\ now' = stamp
                /\ ret' = Returned(Awaited(Call("createOrder", task.params, orderId,
                                                     task.user)))
        /\ UNCHANGED <<protocolFeeBps, treasuryWallet, signedTx, submittedTx,
                       handle, swap>>

\* executeOrder up to its await (orderManger.ts 101-122)
executeOrder(orderId) ==
    /\ IF orderId \notin DOMAIN orders
       THEN /\ ret' = Raised(Call("executeOrder", NoParams, orderId, ""),
                             <<"Order not found">>)
            /\ UNCHANGED tasks
       ELSE IF orders[orderId].status # "pending"
       THEN /\ ret' = Raised(Call("executeOrder", NoParams, orderId, ""),
                             <<"Order is not in pending status. Current status: ",
                               orders[orderId].status>>)
            /\ UNCHANGED tasks
       ELSE /\ CanSuspend
            /\ tasks' = Suspend(Task("executeOrder", orderId,
                                     StoredRef(Memory, orderId).born, NoParams, ""))
            /\ ret' = NoRet
    /\ UNCHANGED <<orders, slots, detached, orderIdCounter, protocolFeeBps,
                   treasuryWallet, mirror, now, signedTx, submittedTx,
                   handle, swap>>

\* the signature the network gives the next transaction of an order
Signature(orderId) == <<"sig", CopiesIn(orderId, submittedTx) + 1>>

\* executeOrder from the result of executeOrderSwap on (orderManger.ts
\* 124-154); e is what the services answered during the swap
executeOrderResume(task, e) ==
    LET ref == Ref(task.oid, task.born)
        order == Object(Memory, ref)
        result == executeOrderSwap(
                     [inputMint |-> order.inputToken,
                      outputMint |-> order.outputToken,
                      inputAmount |-> order.inputAmount,
                      liquidityProvider |-> order.liquidityProvider,
                      treasuryWallet |-> treasuryWallet,
                      platformFeeBps |-> protocolFeeBps],
                     e, Signature(task.oid))
        done == FinishExecution(order, result)
        m == MapSet(Write(Memory, ref, done.order), ref)
    IN  /\ task.op = "executeOrder"
        /\ tasks' = Resume(task)
        /\ signedTx' = IF result.signed THEN signedTx (+) SetToBag({task.oid})
                       ELSE signedTx
        /\ submittedTx' = IF result.submitted THEN submittedTx (+) SetToBag({task.oid})
                          ELSE submittedTx
        /\ Becomes(m, tasks')
        /\ mirror' = persistOrders(m)
        /\ ret' = LET call == [Awaited(Call("executeOrder", NoParams, task.oid, ""))
                                  EXCEPT !.swap = result]
                  IN  IF done.raised = Undefined THEN Returned(call)
                      ELSE Raised(call, done.raised[1])
        /\ UNCHANGED <<orderIdCounter, protocolFeeBps, treasuryWallet, now,
                       handle, swap>>

\* CancelCheck without the check that the caller created the order
CancelCheckAnyCaller(ords, orderId, caller) ==
    IF orderId \notin DOMAIN ords THEN <<"Order not found">>
    ELSE IF ords[orderId].status # "pending"
    THEN <<"Cannot cancel order with status: ", ords[orderId].status>>
    ELSE << >>

\* the checks of cancelOrder (orderManger.ts 161-172): << >> when they
\* pass, else the message of the error thrown
CancelCheck(ords, orderId, caller) ==
    IF orderId \notin DOMAIN ords THEN <<"Order not found">>
    ELSE IF ords[orderId].creator # caller
    THEN <<"Unauthorized: Only order creator can cancel">>
    ELSE IF ords[orderId].status # "pending"
    THEN <<"Cannot cancel order with status: ", ords[orderId].status>>
    ELSE << >>

\* cancelOrder (orderManger.ts 160-179)
cancelOrder(orderId, caller) ==
    LET thrown == CancelCheck(orders, orderId, caller)
        m == [Memory EXCEPT !.orders[orderId].status = "cancelled"]
    IN  /\ IF thrown # << >>
           THEN /\ ret' = Raised(Call("cancelOrder", NoParams, orderId, caller), thrown)
                /\ UNCHANGED <<orders, mirror>>
           ELSE /\ orders' = m.orders
                /\ mirror' = persistOrders(m)
                /\ ret' = Returned(Call("cancelOrder", NoParams, orderId, caller))
        /\ UNCHANGED <<slots, detached, orderIdCounter, protocolFeeBps, treasuryWallet,
                       now, tasks, signedTx, submittedTx, handle, swap>>

\* CanUpdateQuote letting a failed order through as well
CanUpdateQuoteOrFailed(ords, orderId) ==
    orderId \in DOMAIN ords /\ ords[orderId].status \in {"pending", "failed"}

\* the check of updateOrderQuote (orderManger.ts 219-222)
CanUpdateQuote(ords, orderId) ==
    orderId \in DOMAIN ords /\ ords[orderId].status = "pending"

\* updateOrderQuote from the reply of the quote on (orderManger.ts 233-245):
\* the order object as the call leaves it, and the error it raises, if any
FinishUpdate(order, resp) ==
    LET q == getQuote(order.inputToken, order.outputToken, order.inputAmount, resp)
    IN  IF q.ok
        THEN [order |-> ApplyQuote(order, q.value), raised |-> Undefined]
        ELSE [order |-> order, raised |-> Some(q.error)]

\* updateOrderQuote up to its await
updateOrderQuote(orderId) ==
    /\ IF ~CanUpdateQuote(orders, orderId)
       THEN /\ ret' = Raised(Call("updateOrderQuote", NoParams, orderId, ""),
                             <<"Cannot update quote for non-pending order">>)
            /\ UNCHANGED tasks
       ELSE /\ CanSuspend
            /\ tasks' = Suspend(Task("updateOrderQuote", orderId,
                                     StoredRef(Memory, orderId).born, NoParams, ""))
            /\ ret' = NoRet
    /\ UNCHANGED <<orders, slots, detached, orderIdCounter, protocolFeeBps,
                   treasuryWallet, mirror, now, signedTx, submittedTx,
                   handle, swap>>

updateOrderQuoteResume(task, resp) ==
    LET ref == Ref(task.oid, task.born)
        done == FinishUpdate(Object(Memory, ref), resp)
        m == IF done.raised = Undefined
             THEN MapSet(Write(Memory, ref, done.order), ref) ELSE Memory
    IN  /\ task.op = "updateOrderQuote"
        /\ tasks' = Resume(task)
        /\ Becomes(m, tasks')
        /\ mirror' = IF done.raised = Undefined THEN persistOrders(m) ELSE mirror
        /\ ret' = IF done.raised = Undefined
                  THEN Returned(Awaited(Call("updateOrderQuote", NoParams, task.oid, "")))
                  ELSE Raised(Awaited(Call("updateOrderQuote", NoParams, task.oid, "")),
                              done.raised[1])
        /\ UNCHANGED <<orderIdCounter, protocolFeeBps, treasuryWallet, now,
                       signedTx, submittedTx, handle, swap>>

\* Array.from(this.orders.values()): the keys in insertion order
InsertionOrder(m, ids) ==
    LET Listed(ref) == ref.id \in ids
        listed == SelectSeq(m.slots, Listed)
    IN  [i \in 1..Len(listed) |-> listed[i].id]

\* Array.prototype.sort((a, b) => b.timestamp - a.timestamp), stable
RECURSIVE SortNewestFirst(_, _)
SortNewestFirst(ids, ords) ==
    IF ids = << >> THEN << >>
    ELSE LET x == ids[Len(ids)]
             sorted == SortNewestFirst(SubSeq(ids, 1, Len(ids) - 1), ords)
             k == Cardinality({i \in 1..Len(sorted) :
                                 ords[sorted[i]].timestamp >= ords[x].timestamp})
         IN  SubSeq(sorted, 1, k) \o << x >> \o SubSeq(sorted, k + 1, Len(sorted))

\* OrderManager.getOrdersByStatus, as the ids of the orders it returns
getOrdersByStatus(m, status) ==
    SortNewestFirst(
        InsertionOrder(m, {id \in DOMAIN m.orders : m.orders[id].status = status}),
        m.orders)

\* the rest of the loop with no try around updateOrderQuote: an error ends it
RestOfSweepUncaught(queue, raised) ==
    IF raised # Undefined THEN << >> ELSE Tail(queue)

\* the orders the loop of refreshPendingQuotes still has to visit once the
\* updateOrderQuote it waited for is over: its error, if any, is caught and
\* logged inside the loop (orderManger.ts 293-297)
RestOfSweep(queue, raised) == Tail(queue)

\* the loop of refreshPendingQuotes up to its next await (orderManger.ts
\* 292-298): an order whose updateOrderQuote throws at once is logged and
\* skipped.  queue: the orders from the one it now waits for on; tried: the
\* orders it has called updateOrderQuote on
RECURSIVE NextToRefresh(_, _, _)
NextToRefresh(queue, tried, ords) ==
    IF queue = << >> THEN [queue |-> << >>, tried |-> tried]
    ELSE IF CanUpdateQuote(ords, Head(queue))
    THEN [queue |-> queue, tried |-> Append(tried, Head(queue))]
    ELSE NextToRefresh(Tail(queue), Append(tried, Head(queue)), ords)

\* refreshPendingQuotes up to its first await (orderManger.ts 289-294)
refreshPendingQuotes ==
    LET sweep == getOrdersByStatus(Memory, "pending")
        next == NextToRefresh(sweep, << >>, orders)
    IN  /\ IF next.queue = << >>
           THEN /\ ret' = [Returned(Call("refreshPendingQuotes", NoParams, NoId, ""))
                              EXCEPT !.swept = next.tried]
                /\ UNCHANGED tasks
           ELSE /\ CanSuspend
                /\ InFlight("refreshPendingQuotes") = 0
                /\ tasks' = Suspend(
                      [Task("refreshPendingQuotes", Head(next.queue),
                            StoredRef(Memory, Head(next.queue)).born, NoParams, "")
                          EXCEPT !.queue = next.queue, !.sweep = sweep,
                                 !.tried = next.tried])
                /\ ret' = NoRet
        /\ UNCHANGED <<orders, slots, detached, orderIdCounter, protocolFeeBps,
                       treasuryWallet, mirror, now, signedTx, submittedTx,
                       handle, swap>>

\* refreshPendingQuotes from the reply for the order at the head of the
\* queue on, up to the next await or the end of the loop
refreshPendingQuotesResume(task, resp) ==
    LET ref == Ref(task.oid, task.born)
        done == FinishUpdate(Object(Memory, ref), resp)
        m == IF done.raised = Undefined
             THEN MapSet(Write(Memory, ref, done.order), ref) ELSE Memory
        next == NextToRefresh(RestOfSweep(task.queue, done.raised), task.tried,
                              m.orders)
    IN  /\ task.op = "refreshPendingQuotes"
        /\ IF next.queue = << >>
           THEN /\ tasks' = Resume(task)
                /\ ret' = [Returned(Awaited(Call("refreshPendingQuotes", NoParams,
                                                 NoId, "")))
                              EXCEPT !.swept = next.tried]
           ELSE /\ tasks' = Resume(task) (+) SetToBag(
                      {[task EXCEPT !.oid = Head(next.queue),
                                    !.born = StoredRef(m, Head(next.queue)).born,
                                    !.queue = next.queue, !.tried = next.tried]})
                /\ ret' = NoRet
        /\ Becomes(m, tasks')
        /\ mirror' = IF done.raised = Undefined THEN persistOrders(m) ELSE mirror
        /\ UNCHANGED <<orderIdCounter, protocolFeeBps, treasuryWallet, now,
                       signedTx, submittedTx, handle, swap>>

\* room for one more createOrder call under a bound on the orders made
Room(limit) == Cardinality(DOMAIN orders) + InFlight("createOrder") < limit

Next ==
    \/ \E params \in OrderCreationParams, user \in Users :
            createOrder(params, user) /\ (tasks' # tasks => Room(MaxOrders))
    \/ \E task \in Suspended, resp \in QuoteResponses,
          idTime \in now..MaxTime, stamp \in now..MaxTime :
            idTime <= stamp /\ createOrderResume(task, resp, idTime, stamp)
    \/ \E orderId \in DOMAIN orders \cup {NoId} : executeOrder(orderId)
    \/ \E task \in Suspended, e \in SwapScenarios : executeOrderResume(task, e)
    \/ \E orderId \in DOMAIN orders \cup {NoId}, caller \in Users :
            cancelOrder(orderId, caller)
    \/ \E orderId \in DOMAIN orders \cup {NoId} : updateOrderQuote(orderId)
    \/ \E task \in Suspended, resp \in QuoteResponses : updateOrderQuoteResume(task, resp)
    \/ refreshPendingQuotes
    \/ \E task \in Suspended, resp \in QuoteResponses :
            refreshPendingQuotesResume(task, resp)

Spec == Init /\ [][Next]_vars

\* ------------------------------------------------- the store as a whole
\* clearAllOrders (orderManger.ts 400-405)
clearAllOrders ==
    LET m == MapClear(Memory, tasks, handle)
    IN  /\ Becomes(m, tasks)
        /\ orderIdCounter' = 0
        /\ mirror' = persistOrders(m)
        /\ ret' = Returned(Call("clearAllOrders", NoParams, NoId, ""))
        /\ UNCHANGED <<protocolFeeBps, treasuryWallet, now, tasks, signedTx,
                       submittedTx, handle, swap>>

\* importOrders (orderManger.ts 385-395).  JSON.parse('null') is null and
\* new Map(null) is an empty Map; reading null.length then throws, after
\* the Map has been replaced and persisted
importOrders(ordersJson) ==
    LET call == Call("importOrders", NoParams, NoId, "")
        m == MapFrom(ordersJson.entries, MapClear(Memory, tasks, handle))
    IN  /\ IF ordersJson.kind \notin {"entries", "null"}
           THEN /\ ret' = Raised(call, <<"Invalid orders data format">>)
                /\ UNCHANGED <<orders, slots, detached, mirror>>
           ELSE /\ Becomes(m, tasks)
                /\ mirror' = persistOrders(m)
                /\ ret' = IF ordersJson.kind = "null"
                          THEN Raised(call, <<"Invalid orders data format">>)
                          ELSE Returned(call)
        /\ UNCHANGED <<orderIdCounter, protocolFeeBps, treasuryWallet, now, tasks,
                       signedTx, submittedTx, handle, swap>>

\* what the constructor of a new manager delivers (orderManger.ts 21-32)
Constructed(loaded) ==
    IF loaded.raised
    THEN Raised(Call("constructor", NoParams, NoId, ""), <<"Unexpected token">>)
    ELSE Returned(Call("constructor", NoParams, NoId, ""))

\* the page is loaded again: the calls of the old manager are gone and a
\* new manager is constructed from the mirror
restart ==
    LET loaded == loadPersistedOrders(mirror)
    IN  /\ orders' = loaded.memory.orders
        /\ slots' = loaded.memory.slots
        /\ detached' = EmptyMap
        /\ orderIdCounter' = loaded.counter
        /\ tasks' = EmptyBag
        /\ handle' = NoRef
        /\ ret' = Constructed(loaded)
        /\ UNCHANGED <<protocolFeeBps, treasuryWallet, mirror, now, signedTx,
                       submittedTx, swap>>

\* bounds and inputs of the specification of the store
StoreOrders == 1     \* ids given out between two resets of the counter
StoreSwaps  == 1     \* swap transactions submitted
StoreCalls  == 1     \* calls suspended at an await while the store is reset

StoreUsers  == {"u1"}
\* the replies to the quote requests of createOrder and of the refreshes
StoreQuotes ==
    { Resp("ok", << >>, [outAmount |-> <<"4", "2">>, priceImpactPct |-> <<"0.1">>]),
      Resp("http", <<"No route">>, NoBody) }
StoreRequotes ==
    { Resp("ok", << >>, [outAmount |-> <<"0", "7">>, priceImpactPct |-> <<"12.5">>]),
      Resp("http", <<"No route">>, NoBody) }
StoreSwapReplies ==
    { Smooth, [Smooth EXCEPT !.confirm = Resp("ok", << >>, "InstructionError")] }

\* an order as another manager exported it
ForeignOrder ==
    NewOrder(Baseline, "u1",
             Quote("SOL", "USDC", 150,
                   [outAmount |-> <<"4", "2">>, priceImpactPct |-> <<"0.1">>]),
             OrderId(0, 1), 0, 100)
ForeignText ==
    Text("entries", << [key |-> ForeignOrder.id, value |-> stringify(ForeignOrder)] >>)

\* what localStorage may hold when the first manager is constructed
StoredTexts == {NullText, Truncated, NotEntries, Text("unreadable", << >>)}

\* the texts importOrders is called with
ImportTexts == {exportOrders(Memory), ForeignText, Truncated, NullText}

StoreInit ==
    /\ mirror \in StoredTexts
    /\ orders = loadPersistedOrders(mirror).memory.orders
    /\ slots = loadPersistedOrders(mirror).memory.slots
    /\ detached = EmptyMap
    /\ orderIdCounter = loadPersistedOrders(mirror).counter
    /\ protocolFeeBps \in FeeRates
    /\ treasuryWallet = "TREASURY"
    /\ now = 0
    /\ tasks = EmptyBag
    /\ signedTx = EmptyBag
    /\ submittedTx = EmptyBag
    /\ handle = NoRef
    /\ swap = NoPipeline
    /\ ret = Constructed(loadPersistedOrders(mirror))

\* the calls of the store specification are the ones that pass their
\* checks; the calls that are turned away are those of Spec
StoreNext ==
    \/ \E user \in StoreUsers :
            /\ BagCardinality(tasks) < StoreCalls
            /\ orderIdCounter + InFlight("createOrder") < StoreOrders
            /\ createOrder(Baseline, user)
    \/ \E task \in Suspended, resp \in StoreQuotes, time \in now..MaxTime :
            createOrderResume(task, resp, time, time)
    \/ \E orderId \in DOMAIN orders :
            /\ BagCardinality(tasks) < StoreCalls
            /\ orders[orderId].status = "pending"
            /\ BagCardinality(submittedTx) + InFlight("executeOrder") < StoreSwaps
            /\ executeOrder(orderId)
    \/ \E task \in Suspended, e \in StoreSwapReplies : executeOrderResume(task, e)
    \/ \E orderId \in DOMAIN orders, caller \in StoreUsers :
            /\ CancelCheck(orders, orderId, caller) = << >>
            /\ cancelOrder(orderId, caller)
    \/ \E orderId \in DOMAIN orders :
            /\ BagCardinality(tasks) < StoreCalls
            /\ CanUpdateQuote(orders, orderId)
            /\ updateOrderQuote(orderId)
    \/ \E task \in Suspended, resp \in StoreRequotes : updateOrderQuoteResume(task, resp)
    \/ BagCardinality(tasks) < StoreCalls /\ refreshPendingQuotes
    \/ \E task \in Suspended, resp \in StoreRequotes :
            refreshPendingQuotesResume(task, resp)
    \/ clearAllOrders
    \/ \E ordersJson \in ImportTexts : importOrders(ordersJson)
    \/ restart

StoreSpec == StoreInit /\ [][StoreNext]_vars

\* two orders side by side, without resets of the store
PairOrders == 2      \* orders made

PairInit ==
    /\ Init
    /\ treasuryWallet = "TREASURY"

PairNext ==
    \/ \E user \in StoreUsers : createOrder(Baseline, user) /\ Room(PairOrders)
    \/ \E task \in Suspended, resp \in StoreQuotes, time \in now..MaxTime :
            createOrderResume(task, resp, time, time)
    \/ \E orderId \in DOMAIN orders :
            /\ orders[orderId].status = "pending"
            /\ executeOrder(orderId)
    \/ \E task \in Suspended, e \in StoreSwapReplies : executeOrderResume(task, e)
    \/ \E orderId \in DOMAIN orders, caller \in StoreUsers :
            /\ CancelCheck(orders, orderId, caller) = << >>
            /\ cancelOrder(orderId, caller)
    \/ \E orderId \in DOMAIN orders :
            /\ CanUpdateQuote(orders, orderId)
            /\ updateOrderQuote(orderId)
    \/ \E task \in Suspended, resp \in StoreRequotes : updateOrderQuoteResume(task, resp)
    \/ refreshPendingQuotes
    \/ \E task \in Suspended, resp \in StoreRequotes :
            refreshPendingQuotesResume(task, resp)

PairSpec == PairInit /\ [][PairNext]_vars

\* ------------------------------------------------------------- queries
\* OrderManager.getAllOrders, as the ids of the orders it returns
getAllOrdersIds(m) ==
    SortNewestFirst(InsertionOrder(m, DOMAIN m.orders), m.orders)

\* OrderManager.getUserOrders, as the ids of the orders it returns
getUserOrdersIds(m, user) ==
    SortNewestFirst(
        InsertionOrder(m, {id \in DOMAIN m.orders : m.orders[id].creator = user}),
        m.orders)

\* the caller keeps the object it was handed; the one it kept before is
\* dropped
Keep(ref, call) ==
    /\ handle' = ref
    /\ detached' = Collect(detached, tasks, ref)
    /\ ret' = Returned(call)
    /\ UNCHANGED <<orders, slots, orderIdCounter, protocolFeeBps, treasuryWallet,
                   mirror, now, tasks, signedTx, submittedTx, swap>>

\* OrderManager.getOrder: the object of the Map itself, or undefined
getOrder(orderId) ==
    Keep(IF orderId \in DOMAIN orders THEN StoredRef(Memory, orderId) ELSE NoRef,
         Call("getOrder", NoParams, orderId, ""))

\* OrderManager.getAllOrders: a new array of the objects of the Map; the
\* caller keeps element i
getAllOrders(i) ==
    /\ i \in 1..Len(getAllOrdersIds(Memory))
    /\ Keep(StoredRef(Memory, getAllOrdersIds(Memory)[i]),
            Call("getAllOrders", NoParams, getAllOrdersIds(Memory)[i], ""))

\* OrderManager.getUserOrders: a new array of the objects of the Map
getUserOrders(user, i) ==
    /\ i \in 1..Len(getUserOrdersIds(Memory, user))
    /\ Keep(StoredRef(Memory, getUserOrdersIds(Memory, user)[i]),
            Call("getUserOrders", NoParams, getUserOrdersIds(Memory, user)[i], user))

\* OrderManager.getOrdersByStatus called from outside: a new array of the
\* objects of the Map
getOrdersWithStatus(status, i) ==
    /\ i \in 1..Len(getOrdersByStatus(Memory, status))
    /\ Keep(StoredRef(Memory, getOrdersByStatus(Memory, status)[i]),
            Call("getOrdersByStatus", NoParams,
                 getOrdersByStatus(Memory, status)[i], ""))

\* the caller assigns to the status field of the object it kept
assignStatus(status) ==
    /\ handle # NoRef
    /\ Becomes(Write(Memory, handle,
                     [Object(Memory, handle) EXCEPT !.status = status]), tasks)
    /\ ret' = Returned(Call("assignStatus", NoParams, handle.id, ""))
    /\ UNCHANGED <<orderIdCounter, protocolFeeBps, treasuryWallet, mirror, now,
                   tasks, signedTx, submittedTx, handle, swap>>

HandleOrders == 2    \* orders made
Statuses == {"pending", "fulfilled", "failed", "cancelled"}
AssignedStatuses == {"pending", "fulfilled"}

HandleNext ==
    \/ \E user \in Users : createOrder(Baseline, user) /\ Room(HandleOrders)
    \/ \E task \in Suspended, resp \in StoreQuotes, time \in now..MaxTime :
            createOrderResume(task, resp, time, time)
    \/ \E orderId \in DOMAIN orders :
            /\ orders[orderId].status = "pending"
            /\ BagCardinality(submittedTx) + InFlight("executeOrder") < StoreSwaps
            /\ executeOrder(orderId)
    \/ \E task \in Suspended, e \in StoreSwapReplies : executeOrderResume(task, e)
    \/ \E orderId \in DOMAIN orders, caller \in Users :
            /\ CancelCheck(orders, orderId, caller) = << >>
            /\ cancelOrder(orderId, caller)
    \/ \E orderId \in DOMAIN orders \cup {NoId} : getOrder(orderId)
    \/ \E i \in 1..HandleOrders : getAllOrders(i)
    \/ \E user \in Users, i \in 1..HandleOrders : getUserOrders(user, i)
    \/ \E status \in Statuses, i \in 1..HandleOrders : getOrdersWithStatus(status, i)
    \/ \E status \in AssignedStatuses : assignStatus(status)

HandleSpec == PairInit /\ [][HandleNext]_vars

\* ----------------------------------------------- the swap, stage by stage
\* executeOrderSwap and the executeSwap it calls, cut at their awaits
SwapStep(next) ==
    /\ swap' = next
    /\ UNCHANGED <<orders, slots, detached, orderIdCounter, protocolFeeBps,
                   treasuryWallet, mirror, now, tasks, signedTx, submittedTx,
                   handle, ret>>

\* a catch that starts the swap over instead of returning
CaughtAndRetried(pipeline, msg) ==
    [pipeline EXCEPT !.stage = "quote", !.done = <<"getQuote">>]

\* the catch of executeOrderSwap (part_000 252-259)
Caught(pipeline, msg) ==
    [pipeline EXCEPT !.stage = "returned",
                     !.result = Result(FALSE, << >>, Some(msg), FALSE, FALSE)]

\* executeSwap returns (part_000 162-173) and executeOrderSwap returns its
\* result with the quoted output (part_000 248-251)
SwapReturns(pipeline, result) ==
    [pipeline EXCEPT
        !.stage = "returned", !.inner = result,
        !.result = [result EXCEPT
                       !.outputAmount =
                           Some(getQuote(pipeline.order.inputMint,
                                         pipeline.order.outputMint,
                                         pipeline.order.inputAmount,
                                         pipeline.replies.quote).value.outAmount)]]

\* new PublicKey(...) of the two mints, the treasury and the liquidity
\* provider (part_000 224-233)
DeriveThrowsNever(order) == FALSE
DeriveThrows(order) ==
    ~ /\ IsPublicKey(order.inputMint)
      /\ IsPublicKey(order.treasuryWallet)
      /\ IsPublicKey(order.outputMint)
      /\ IsPublicKey(order.liquidityProvider)

\* confirmation.value.err (part_000 158-160)
OnChainErrorIgnored(confirm) == Undefined
OnChainError(confirm) ==
    IF confirm.body # "null"
    THEN Some(<<"Transaction failed: ">> \o << confirm.body >>)
    ELSE Undefined

\* executeOrderSwap is called: it awaits getQuote (part_000 215-221)
beginOrderSwap(order) ==
    /\ swap.stage \in {"idle", "returned"}
    /\ SwapStep([NoPipeline EXCEPT !.stage = "quote", !.order = order,
                                   !.done = <<"getQuote">>])

\* the quote arrives: the accounts are derived and createSwapTransaction is
\* awaited (part_000 224-243)
quoteArrives(resp) ==
    LET q == getQuote(swap.order.inputMint, swap.order.outputMint,
                      swap.order.inputAmount, resp)
        seen == [swap EXCEPT !.replies.quote = resp]
    IN  /\ swap.stage = "quote"
        /\ SwapStep(
              IF ~q.ok THEN Caught(seen, q.error)
              ELSE IF DeriveThrows(swap.order)
              THEN Caught([seen EXCEPT !.done = Append(@, "derive")],
                          <<"Invalid public key input">>)
              ELSE [seen EXCEPT !.stage = "build",
                                !.done = @ \o <<"derive", "build">>])

\* the transaction arrives: executeSwap decodes it and awaits the wallet
\* (part_000 246, 139-143)
transactionArrives(resp) ==
    LET tx == createSwapTransaction(resp)
        seen == [swap EXCEPT !.replies.build = resp]
    IN  /\ swap.stage = "build"
        /\ SwapStep(
              IF ~tx.ok THEN Caught(seen, tx.error)
              ELSE IF tx.value # "tx"
              THEN SwapReturns([seen EXCEPT !.entered = TRUE],
                               Result(FALSE, << >>, Some(<<"Failed to deserialize">>),
                                      FALSE, FALSE))
              ELSE [seen EXCEPT !.stage = "sign", !.entered = TRUE,
                                !.done = Append(@, "sign")])

\* wallet.signTransaction settles: sendTransaction is awaited (part_000
\* 143-149)
walletSettles(resp) ==
    LET seen == [swap EXCEPT !.replies.sign = resp]
    IN  /\ swap.stage = "sign"
        /\ SwapStep(
              IF resp.kind # "ok"
              THEN SwapReturns(seen, Result(FALSE, << >>, Some(resp.msg), FALSE, FALSE))
              ELSE [seen EXCEPT !.stage = "send", !.done = Append(@, "submit")])

\* sendTransaction settles: confirmTransaction is awaited (part_000 146-156)
sendSettles(resp, sig) ==
    LET seen == [swap EXCEPT !.replies.send = resp]
    IN  /\ swap.stage = "send"
        /\ SwapStep(
              IF resp.kind # "ok"
              THEN SwapReturns(seen, Result(FALSE, << >>, Some(resp.msg), TRUE, FALSE))
              ELSE [seen EXCEPT !.stage = "confirm", !.sig = sig,
                                !.done = Append(@, "confirm")])

\* confirmTransaction settles (part_000 152-165)
confirmSettles(resp) ==
    LET seen == [swap EXCEPT !.replies.confirm = resp]
    IN  /\ swap.stage = "confirm"
        /\ SwapStep(
              IF resp.kind # "ok"
              THEN SwapReturns(seen, Result(FALSE, << >>, Some(resp.msg), TRUE, TRUE))
              ELSE IF OnChainError(resp) # Undefined
              THEN SwapReturns(seen, Result(FALSE, << >>, OnChainError(resp), TRUE, TRUE))
              ELSE SwapReturns(seen, Result(TRUE, swap.sig, Undefined, TRUE, TRUE)))

\* the order argument of executeOrderSwap
SwapOrders ==
    [inputMint : {"SOL", "bad"}, outputMint : {"USDC", "bad"}, inputAmount : {150},
     liquidityProvider : {"LP", "bad"}, treasuryWallet : {"TREASURY", ""}]
SwapSignatures == { <<"sig", 1>> }

SwapNext ==
    \/ \E order \in SwapOrders : beginOrderSwap(order)
    \/ \E resp \in QuoteResponses : quoteArrives(resp)
    \/ \E resp \in BuildResponses : transactionArrives(resp)
    \/ \E resp \in SignResponses : walletSettles(resp)
    \/ \E resp \in SendResponses, sig \in SwapSignatures : sendSettles(resp, sig)
    \/ \E resp \in ConfirmResponses : confirmSettles(resp)

SwapSpec == Init /\ [][SwapNext]_vars

\* ---------------------------------------------------------- validation
\* createOrder over every combination of its parameters
ValidateOrders == 1  \* orders made

ValidateNext ==
    \/ \E params \in AllParams, user \in Users :
            createOrder(params, user) /\ (tasks' # tasks => Room(ValidateOrders))
    \/ \E task \in Suspended, resp \in StoreQuotes, time \in now..MaxTime :
            createOrderResume(task, resp, time, time)

ValidateSpec == Init /\ [][ValidateNext]_vars

\* ------------------------------------------------------------- reports
\* Array.from(this.orders.values())
Values(m) == [i \in 1..Len(m.slots) |-> m.orders[m.slots[i].id]]

\* .reduce((sum, o) => sum + o.inputAmount, 0)
RECURSIVE SumInputAmount(_)
SumInputAmount(list) ==
    IF list = << >> THEN 0
    ELSE SumInputAmount(SubSeq(list, 1, Len(list) - 1)) + list[Len(list)].inputAmount

\* getOrderStats that adds up the input of every order
OrderStatsOfAllVolume(m) ==
    LET all == Values(m)
        With(status) == LET Has(o) == o.status = status IN SelectSeq(all, Has)
    IN  [total |-> Len(all),
         pending |-> Len(With("pending")),
         fulfilled |-> Len(With("fulfilled")),
         failed |-> Len(With("failed")),
         cancelled |-> Len(With("cancelled")),
         totalVolume |-> SumInputAmount(all)]

\* the OrderStats that OrderManager.getOrderStats returns
OrderStats(m) ==
    LET all == Values(m)
        With(status) == LET Has(o) == o.status = status IN SelectSeq(all, Has)
    IN  [total |-> Len(all),
         pending |-> Len(With("pending")),
         fulfilled |-> Len(With("fulfilled")),
         failed |-> Len(With("failed")),
         cancelled |-> Len(With("cancelled")),
         totalVolume |-> SumInputAmount(With("fulfilled"))]

\* OrderManager.getOrderStats
getOrderStats ==
    /\ ret' = [Returned(Call("getOrderStats", NoParams, NoId, ""))
                  EXCEPT !.value = OrderStats(Memory)]
    /\ UNCHANGED <<orders, slots, detached, orderIdCounter, protocolFeeBps,
                   treasuryWallet, mirror, now, tasks, signedTx, submittedTx,
                   handle, swap>>

\* 5 * 60 * 1000 milliseconds
QUOTE_EXPIRY_TIME == 300000

\* the filter of getOrdersRequiringAttention with >= for >
NeedsAttentionFromExpiry(order, time) ==
    \/ order.status = "failed"
    \/ order.status = "pending" /\ time - order.timestamp >= QUOTE_EXPIRY_TIME

\* the filter of getOrdersRequiringAttention (orderManger.ts 273-283)
NeedsAttention(order, time) ==
    \/ order.status = "failed"
    \/ order.status = "pending" /\ time - order.timestamp > QUOTE_EXPIRY_TIME

\* OrderManager.getOrdersRequiringAttention, as the ids of the orders it
\* returns; time is its reading of Date.now()
getOrdersRequiringAttention(time) ==
    LET Needs(ref) == NeedsAttention(orders[ref.id], time)
        listed == SelectSeq(slots, Needs)
    IN  /\ time >= now
        /\ now' = time
        /\ ret' = [Returned(Call("getOrdersRequiringAttention", NoParams, NoId, ""))
                      EXCEPT !.value = [i \in 1..Len(listed) |-> listed[i].id]]
        /\ UNCHANGED <<orders, slots, detached, orderIdCounter, protocolFeeBps,
                       treasuryWallet, mirror, tasks, signedTx, submittedTx,
                       handle, swap>>

ReportOrders == 2    \* orders made
\* readings of Date.now(): a start, and 1, 5, 5 and a bit, and 10 minutes later
ReportTimes == {0, 60000, 300000, 300001, 600000}
ReportParams == {Baseline, [Baseline EXCEPT !.inputAmount = 1000000]}

ReportNext ==
    \/ \E params \in ReportParams, user \in StoreUsers :
            /\ BagCardinality(tasks) = 0
            /\ createOrder(params, user) /\ Room(ReportOrders)
    \/ \E task \in Suspended, resp \in StoreQuotes, time \in ReportTimes :
            time >= now /\ createOrderResume(task, resp, time, time)
    \/ \E orderId \in DOMAIN orders :
            /\ orders[orderId].status = "pending"
            /\ BagCardinality(tasks) = 0
            /\ executeOrder(orderId)
    \/ \E task \in Suspended, e \in StoreSwapReplies : executeOrderResume(task, e)
    \/ \E orderId \in DOMAIN orders, caller \in StoreUsers :
            /\ CancelCheck(orders, orderId, caller) = << >>
            /\ cancelOrder(orderId, caller)
    \/ getOrderStats
    \/ \E time \in ReportTimes : getOrdersRequiringAttention(time)

ReportSpec == PairInit /\ [][ReportNext]_vars

\* ------------------------------------------- an execution, stage by stage
\* executeOrder with the executeOrderSwap it awaits followed through its
\* stages; one executeOrder at a time
LiveOrders == 1      \* orders made

\* the argument executeOrder passes to executeOrderSwap (orderManger.ts
\* 115-122)
SwapArgument(order) ==
    [inputMint |-> order.inputToken, outputMint |-> order.outputToken,
     inputAmount |-> order.inputAmount,
     liquidityProvider |-> order.liquidityProvider,
     treasuryWallet |-> treasuryWallet]

\* executeOrder enters executeOrderSwap, which awaits getQuote
orderSwapBegins(task) ==
    /\ task.op = "executeOrder"
    /\ swap.oid # task.oid
    /\ swap.stage \in {"idle", "returned"}
    /\ SwapStep([NoPipeline EXCEPT
                    !.stage = "quote", !.oid = task.oid,
                    !.order = SwapArgument(Object(Memory, Ref(task.oid, task.born))),
                    !.done = <<"getQuote">>])

\* executeOrderSwap has returned to the executeOrder that awaited it
orderSwapReturns(task) ==
    /\ swap.stage = "returned"
    /\ swap.oid = task.oid
    /\ executeOrderResume(task, swap.replies)

LiveNext ==
    \/ \E user \in StoreUsers : createOrder(Baseline, user) /\ Room(LiveOrders)
    \/ \E task \in Suspended, resp \in StoreQuotes, time \in now..MaxTime :
            createOrderResume(task, resp, time, time)
    \/ \E orderId \in DOMAIN orders :
            /\ orders[orderId].status = "pending"
            /\ InFlight("executeOrder") = 0
            /\ executeOrder(orderId)
    \/ \E task \in Suspended : orderSwapBegins(task)
    \/ \E resp \in QuoteResponses : quoteArrives(resp)
    \/ \E resp \in BuildResponses : transactionArrives(resp)
    \/ \E resp \in SignResponses : walletSettles(resp)
    \/ \E resp \in SendResponses : sendSettles(resp, Signature(swap.oid))
    \/ \E resp \in ConfirmResponses : confirmSettles(resp)
    \/ \E task \in Suspended : orderSwapReturns(task)
    \/ \E orderId \in DOMAIN orders, caller \in StoreUsers :
            /\ CancelCheck(orders, orderId, caller) = << >>
            /\ cancelOrder(orderId, caller)
    \/ \E orderId \in DOMAIN orders :
            /\ CanUpdateQuote(orders, orderId)
            /\ updateOrderQuote(orderId)
    \/ \E task \in Suspended, resp \in StoreRequotes : updateOrderQuoteResume(task, resp)

\* the next stage of the executeOrderSwap in flight: at most one of these
\* is possible at a time
SwapProgress ==
    \/ \E task \in Suspended : orderSwapBegins(task)
    \/ \E resp \in QuoteResponses : quoteArrives(resp)
    \/ \E resp \in BuildResponses : transactionArrives(resp)
    \/ \E resp \in SignResponses : walletSettles(resp)
    \/ \E resp \in SendResponses : sendSettles(resp, Signature(swap.oid))
    \/ \E resp \in ConfirmResponses : confirmSettles(resp)

\* the executeOrder whose executeOrderSwap has returned is no longer
\* suspended: what a step of orderSwapReturns does to tasks
ContinuationRuns ==
    \E task \in Suspended :
        /\ task.op = "executeOrder"
        /\ swap.stage = "returned"
        /\ swap.oid = task.oid
        /\ tasks' = Resume(task)

\* every call to a service, the wallet or the network is answered, and the
\* event loop runs the continuation that is ready
Responsive == WF_vars(SwapProgress) /\ WF_tasks(ContinuationRuns)

LiveSpec == Init /\ [][LiveNext]_vars /\ Responsive

\* ---------------------------------------------------------------- claims
Terminal == {"fulfilled", "failed", "cancelled"}

InFlightOn(op, orderId) ==
    \E task \in Suspended : task.op = op /\ task.oid = orderId

\* C1: once an order's status is fulfilled, failed or cancelled, no step
\* of any call changes it again.
TerminalStatusIsAbsorbing ==
    [][\A id \in DOMAIN orders :
          orders[id].status \in Terminal
              => id \in DOMAIN orders' /\ orders'[id].status = orders[id].status]_vars

\* C2: for every order, at most one swap transaction is ever signed by
\* the wallet and at most one is ever submitted to the network.
AtMostOneSwapPerOrder ==
    \A id \in DOMAIN orders :
        CopiesIn(id, signedTx) <= 1 /\ CopiesIn(id, submittedTx) <= 1

\* C3: while an executeOrder call on an order is suspended at its await,
\* no step turns that order's status into cancelled.
CancelExcludedDuringExecute ==
    [][\A id \in DOMAIN orders :
          InFlightOn("executeOrder", id) /\ orders[id].status # "cancelled"
              => orders'[id].status # "cancelled"]_vars

\* C4: every stored order's protocolFee is the integer
\* floor(inputAmount * protocolFeeBps / 10000).
ProtocolFeeIsFloor ==
    \A id \in DOMAIN orders :
        orders[id].protocolFee =
            [int |-> (orders[id].inputAmount * protocolFeeBps) \div 10000, frac |-> 0]

\* the integer a string of decimal digits stands for
RECURSIVE DecimalValue(_)
DecimalValue(s) ==
    IF s = << >> THEN 0
    ELSE 10 * DecimalValue(SubSeq(s, 1, Len(s) - 1)) + DigitVal(s[Len(s)])

CreateFailedAtQuote(r) ==
    /\ Len(r.error) >= 2
    /\ r.error[1] = "Failed to create order: "
    /\ r.error[2] = "Failed to get quote: "

\* C5: a createOrder call that got past validation raises only when its
\* quote fetch failed; otherwise it returns the id of exactly one new order,
\* inserted with status pending and with expectedOutputAmount equal to the
\* output amount of the quote fetched in the call, and touches no other order.
CreateInsertsPendingOrder ==
    [][ret'.op = "createOrder" /\ ret'.awaited =>
          IF ret'.outcome = "ok"
          THEN /\ ret'.oid \notin DOMAIN orders
               /\ DOMAIN orders' = DOMAIN orders \cup {ret'.oid}
               /\ \A id \in DOMAIN orders : orders'[id] = orders[id]
               /\ orders'[ret'.oid].status = "pending"
               /\ orders'[ret'.oid].quote.outAmount \in {b.outAmount : b \in Priced}
               /\ orders'[ret'.oid].expectedOutputAmount =
                      DecimalValue(orders'[ret'.oid].quote.outAmount)
          ELSE CreateFailedAtQuote(ret') /\ orders' = orders]_vars

CreateInsertsPendingOrderWitness ==
    /\ ret.op = "createOrder" /\ ret.outcome = "ok"
    /\ ret.oid \in DOMAIN orders
    /\ orders[ret.oid].quote.outAmount = <<"0", "7">>
    /\ orders[ret.oid].expectedOutputAmount = 7

WellFormed(address) == address \in WellFormedKeys

Defective(params) ==
    \/ params.inputToken = params.outputToken
    \/ params.inputAmount <= 0
    \/ ~WellFormed(params.liquidityProvider)
    \/ params.refundAddress # "" /\ ~WellFormed(params.refundAddress)

\* C6: a createOrder call whose tokens are equal, whose amount is <= 0,
\* whose liquidity-provider address is malformed or whose supplied refund
\* address is malformed raises without having awaited a network call, and
\* leaves the collection, the id counter and the mirror as they were.
CreateRejectsDefectiveParams ==
    [][ret'.op = "createOrder" /\ Defective(ret'.params) =>
          /\ ret'.outcome = "error"
          /\ ~ret'.awaited
          /\ tasks' = tasks
          /\ UNCHANGED <<orders, orderIdCounter, mirror>>]_vars

CreateRejectsDefectiveParamsWitness ==
    /\ ret.op = "createOrder" /\ ret.outcome = "error"
    /\ ret.params.inputToken = ret.params.outputToken
    /\ orders # EmptyMap
    /\ tasks # EmptyBag

\* C7: cancelOrder on a stored order raises an authorization error when
\* the caller is not the creator, raises an invalid-state error when the
\* creator calls it on an order that is not pending, and otherwise turns
\* the status into cancelled and nothing else; a call that raises leaves
\* the collection and the mirror as they were, and no other step ever
\* turns a status into cancelled.
CancelOnlyByCreatorWhenPending ==
    [][ /\ ret'.op = "cancelOrder" /\ ret'.oid \in DOMAIN orders =>
             LET order == orders[ret'.oid]
             IN  /\ ret'.caller # order.creator =>
                        /\ ret'.outcome = "error"
                        /\ ret'.error = <<"Unauthorized: Only order creator can cancel">>
                 /\ ret'.caller = order.creator /\ order.status # "pending" =>
                        /\ ret'.outcome = "error"
                        /\ ret'.error = <<"Cannot cancel order with status: ", order.status>>
                 /\ ret'.caller = order.creator /\ order.status = "pending" =>
                        /\ ret'.outcome = "ok"
                        /\ orders' = [orders EXCEPT ![ret'.oid].status = "cancelled"]
        /\ ret'.op = "cancelOrder" /\ ret'.outcome = "error" =>
             orders' = orders /\ mirror' = mirror
        /\ \A id \in DOMAIN orders :
             orders[id].status # "cancelled" /\ orders'[id].status = "cancelled" =>
                 /\ ret'.op = "cancelOrder" /\ ret'.oid = id
                 /\ ret'.caller = orders[id].creator
                 /\ orders[id].status = "pending" ]_vars

CancelOnlyByCreatorWhenPendingWitness ==
    /\ ret.op = "cancelOrder" /\ ret.outcome = "error"
    /\ ret.oid \in DOMAIN orders
    /\ ret.caller # orders[ret.oid].creator
    /\ orders[ret.oid].status = "pending"

OutcomeFieldsMatchStatus ==
    \A id \in DOMAIN orders :
        /\ orders[id].transactionSignature # Undefined => orders[id].status = "fulfilled"
        /\ orders[id].actualOutputAmount # Undefined => orders[id].status = "fulfilled"
        /\ orders[id].errorMessage # Undefined => orders[id].status = "failed"

\* C10: no step changes the protocolFee of a stored order.
ProtocolFeeNeverChanges ==
    [][\A id \in DOMAIN orders :
          id \in DOMAIN orders' /\ orders'[id].protocolFee = orders[id].protocolFee]_vars

ProtocolFeeNeverChangesWitness ==
    /\ ret.op = "updateOrderQuote" /\ ret.outcome = "ok"
    /\ orders[ret.oid].expectedOutputAmount = 7
    /\ orders[ret.oid].protocolFee = [int |-> 1, frac |-> 5000]

\* a call of op on orderId suspends at its await in this step
Suspends(op, orderId) ==
    \E task \in BagToSet(tasks') :
        /\ task.op = op /\ task.oid = orderId
        /\ CopiesIn(task, tasks') > CopiesIn(task, tasks)

\* C11: updateOrderQuote called on an id that is not stored, or on an order
\* that is fulfilled, failed or cancelled, raises the invalid-state error
\* without suspending at a quote fetch, and leaves the collection and the
\* mirror as they were.
UpdateRejectsNonPending ==
    [][\A orderId \in DOMAIN orders \cup {NoId} :
          orderId \notin DOMAIN orders \/ orders[orderId].status \in Terminal =>
              /\ ~Suspends("updateOrderQuote", orderId)
              /\ ret'.op = "updateOrderQuote" /\ ret'.oid = orderId /\ ~ret'.awaited =>
                     /\ ret'.outcome = "error"
                     /\ ret'.error = <<"Cannot update quote for non-pending order">>
                     /\ UNCHANGED <<orders, mirror, tasks>>]_vars

UpdateRejectsNonPendingWitness ==
    /\ ret.op = "updateOrderQuote" /\ ret.outcome = "error" /\ ~ret.awaited
    /\ ret.oid \in DOMAIN orders
    /\ orders[ret.oid].status = "fulfilled"
    /\ tasks # EmptyBag

\* a step of an executeOrder call on orderId: its call or its resumption
ExecuteStep(orderId) ==
    \/ Suspends("executeOrder", orderId)
    \/ ret'.op = "executeOrder" /\ ret'.oid = orderId

\* C12: a step of executeOrder on order A, whether its swap succeeds or
\* fails and whatever other calls are suspended, leaves every other stored
\* order as it was.
ExecuteLeavesOtherOrders ==
    [][\A a \in DOMAIN orders :
          ExecuteStep(a) =>
              \A b \in DOMAIN orders \ {a} :
                  b \in DOMAIN orders' /\ orders'[b] = orders[b]]_vars

ExecuteLeavesOtherOrdersWitness ==
    /\ ret.op = "executeOrder" /\ ret.outcome = "error" /\ ret.awaited
    /\ orders[ret.oid].status = "failed"
    /\ \E b \in DOMAIN orders \ {ret.oid} :
          orders[b].status = "pending" /\ InFlightOn("updateOrderQuote", b)

\* C13: createOrder never returns an id under which the collection
\* already holds an order.
CreateNeverReissuesId ==
    [][ret'.op = "createOrder" /\ ret'.outcome = "ok" =>
          ret'.oid \notin DOMAIN orders]_vars

\* the keys of the Map, in its order
KeysOf(sl) == [i \in 1..Len(sl) |-> sl[i].id]

ExportImportRoundTrip ==
    [][/\ importOrders(exportOrders(Memory)) =>
             /\ orders' = orders
             /\ KeysOf(slots') = KeysOf(slots)
             /\ ret'.outcome = "ok"
        /\ \A ordersJson \in ImportTexts :
             importOrders(ordersJson) /\ ret'.outcome = "ok" =>
                 /\ KeysOf(slots') = [i \in 1..Len(ordersJson.entries) |->
                                         ordersJson.entries[i].key]
                 /\ DOMAIN orders' = {ordersJson.entries[i].key :
                                         i \in 1..Len(ordersJson.entries)}
                 /\ \A i \in 1..Len(ordersJson.entries) :
                        stringify(orders'[ordersJson.entries[i].key]) =
                            ordersJson.entries[i].value]_vars

ExportImportRoundTripWitness ==
    /\ ret.op = "importOrders" /\ ret.outcome = "ok"
    /\ Cardinality(DOMAIN orders) = 2
    /\ \E id \in DOMAIN orders :
          /\ orders[id].status = "fulfilled"
          /\ orders[id].transactionSignature # Undefined
          /\ orders[id].errorMessage = Undefined
    /\ \E id \in DOMAIN orders : orders[id].status = "cancelled"

\* the refreshPendingQuotes call suspended before and after this step
SweepBefore == {task \in Suspended : task.op = "refreshPendingQuotes"}
SweepAfter  == {task \in BagToSet(tasks') : task.op = "refreshPendingQuotes"}

\* C16: refreshPendingQuotes starts with the orders that are pending, calls
\* updateOrderQuote on them one after the other whatever the earlier ones
\* did (quote failure, order no longer pending), has fewer orders left after
\* every reply, and returns, never raises, once it has called
\* updateOrderQuote on every order it started with.
SweepAttemptsEveryPendingOrder ==
    [][/\ ret'.op = "refreshPendingQuotes" =>
             /\ ret'.outcome = "ok"
             /\ IF ret'.awaited
                THEN \A task \in SweepBefore : ret'.swept = task.sweep
                ELSE ret'.swept = << >>
                     /\ \A id \in DOMAIN orders : orders[id].status # "pending"
        /\ \A after \in SweepAfter \ SweepBefore :
             /\ after.tried \o Tail(after.queue) = after.sweep
             /\ after.oid = Head(after.queue)
             /\ IF SweepBefore = {}
                THEN {after.sweep[i] : i \in 1..Len(after.sweep)} =
                         {id \in DOMAIN orders : orders[id].status = "pending"}
                ELSE \A before \in SweepBefore :
                         /\ after.sweep = before.sweep
                         /\ Len(after.queue) < Len(before.queue)]_vars

SweepAttemptsEveryPendingOrderWitness ==
    /\ ret.op = "refreshPendingQuotes" /\ ret.awaited
    /\ Len(ret.swept) = 2
    /\ orders[ret.swept[1]].status = "cancelled"
    /\ orders[ret.swept[1]].quote.outAmount = <<"4", "2">>
    /\ orders[ret.swept[2]].quote.outAmount = <<"0", "7">>

Unreadable(stored) == stored.kind \notin {"entries", "null"}

\* C20: while the mirror holds a text that cannot be read as orders, the
\* construction of a manager from it has not raised and leaves the
\* collection empty, and a createOrder whose quote arrives returns the id of
\* a pending order that is then the one order of the collection and of the
\* mirror.
CorruptMirrorIsEmptyStorage ==
    [][Unreadable(mirror) =>
          /\ orders = EmptyMap
          /\ ret.op = "constructor" => ret.outcome = "ok"
          /\ ret'.op = "constructor" => ret'.outcome = "ok" /\ orders' = EmptyMap
          /\ ret'.op = "createOrder" /\ ret'.awaited =>
                 IF ret'.outcome = "ok"
                 THEN /\ DOMAIN orders' = {ret'.oid}
                      /\ orders'[ret'.oid].status = "pending"
                      /\ mirror'.kind = "entries"
                      /\ loadPersistedOrders(mirror').memory.orders = orders'
                 ELSE CreateFailedAtQuote(ret') /\ orders' = orders]_vars

CorruptMirrorIsEmptyStorageWitness ==
    /\ mirror.kind = "truncated"
    /\ orders = EmptyMap /\ orderIdCounter = 0
    /\ InFlight("createOrder") = 1

StoredStatusChangers == {"createOrder", "executeOrder", "cancelOrder"}

\* C19: an assignment a caller makes to a field of an Order object it got
\* from getOrder, getUserOrders, getAllOrders or getOrdersByStatus leaves the
\* orders of the collection as they are, and the status of a stored order
\* changes only in a step of createOrder, executeOrder or cancelOrder.
CallersHoldNoLiveHandle ==
    [][/\ ret'.op = "assignStatus" => orders' = orders
        /\ \A id \in DOMAIN orders \cap DOMAIN orders' :
              orders'[id].status # orders[id].status =>
                  ret'.op \in StoredStatusChangers]_vars

\* the stages of executeOrderSwap, in the order of the source
StageOrder == <<"getQuote", "derive", "build", "sign", "submit", "confirm">>

\* the stage went through, judged by what the services answered
Succeeded(stage) ==
    IF stage = "getQuote"
    THEN getQuote(swap.order.inputMint, swap.order.outputMint,
                  swap.order.inputAmount, swap.replies.quote).ok
    ELSE IF stage = "derive"
    THEN {swap.order.inputMint, swap.order.outputMint, swap.order.treasuryWallet,
          swap.order.liquidityProvider} \subseteq WellFormedKeys
    ELSE IF stage = "build"
    THEN swap.replies.build.kind = "ok" /\ swap.replies.build.body = "tx"
    ELSE IF stage = "sign" THEN swap.replies.sign.kind = "ok"
    ELSE IF stage = "submit" THEN swap.replies.send.kind = "ok"
    ELSE swap.replies.confirm.kind = "ok" /\ swap.replies.confirm.body = "null"

InExecuteSwap == {"sign", "send", "confirm"}

\* C17: once executeSwap is called it waits for the wallet or the network
\* or has returned, never raised; it returns success true with the
\* signature of sendTransaction exactly when decoding, signing, submission
\* and confirmation all succeeded and the confirmation reports no on-chain
\* error, and in every other case success false with an empty signature and
\* the error field set.
ExecuteSwapReturnsResult ==
    swap.entered =>
        /\ swap.stage \in InExecuteSwap \cup {"returned"}
        /\ swap.stage = "returned" =>
              /\ swap.inner.success <=>
                    /\ Len(swap.done) = 6
                    /\ \A i \in 3..6 : Succeeded(StageOrder[i])
              /\ IF swap.inner.success
                 THEN /\ swap.inner.signature = swap.sig
                      /\ swap.inner.signature # << >>
                      /\ swap.inner.error = Undefined
                 ELSE /\ swap.inner.signature = << >>
                      /\ swap.inner.error # Undefined

ExecuteSwapReturnsResultWitness ==
    /\ swap.entered /\ swap.stage = "returned"
    /\ ~swap.inner.success
    /\ swap.replies.confirm = Resp("ok", << >>, "InstructionError")
    /\ swap.done = StageOrder
    /\ swap.inner.error = Some(<<"Transaction failed: ", "InstructionError">>)

Waits == {"quote", "build", "sign", "send", "confirm"}

\* C18: the stages executeOrderSwap has started are always an initial
\* part of getQuote, derive, build, sign, submit, confirm; every stage
\* before the last one started has succeeded; the call is waiting for a
\* reply or has returned, never raised; and it returns success exactly when
\* all six stages succeeded, otherwise success false with the error set,
\* right after the first stage that failed.
SwapStagesInOrder ==
    /\ swap.stage \in Waits \cup {"idle", "returned"}
    /\ swap.done = SubSeq(StageOrder, 1, Len(swap.done))
    /\ \A i \in 1..Len(swap.done) - 1 : Succeeded(StageOrder[i])
    /\ swap.stage = "returned" =>
          /\ swap.result =
                 executeOrderSwap(swap.order, swap.replies, swap.sig)
          /\ swap.result.success <=>
                 /\ Len(swap.done) = 6
                 /\ \A i \in 1..6 : Succeeded(StageOrder[i])
          /\ ~swap.result.success =>
                 /\ ~Succeeded(swap.done[Len(swap.done)])
                 /\ swap.result.error # Undefined
                 /\ swap.result.signature = << >>

SwapStagesInOrderWitness ==
    /\ swap.stage = "returned"
    /\ swap.done = <<"getQuote", "derive">>
    /\ ~swap.result.success
    /\ swap.result.error = Some(<<"Invalid public key input">>)
    /\ swap.replies.quote.kind = "ok"

\* the checks of createOrder in the order the contract gives them, each
\* with the messages that report it
ChecksInOrder == <<"tokens", "amount", "provider", "refund", "treasury">>
Violates(params, treasury, check) ==
    IF check = "tokens"
    THEN params.inputToken = "" \/ params.outputToken = ""
         \/ params.inputToken = params.outputToken
    ELSE IF check = "amount" THEN ~(params.inputAmount > 0)
    ELSE IF check = "provider" THEN params.liquidityProvider \notin WellFormedKeys
    ELSE IF check = "refund"
    THEN params.refundAddress # "" /\ params.refundAddress \notin WellFormedKeys
    ELSE treasury = ""
MessagesOf(check) ==
    IF check = "tokens"
    THEN {<<"Input and output tokens are required">>,
          <<"Input and output tokens cannot be the same">>}
    ELSE IF check = "amount" THEN {<<"Input amount must be greater than 0">>}
    ELSE IF check = "provider"
    THEN {<<"Liquidity provider address is required">>,
          <<"Invalid liquidity provider address">>}
    ELSE IF check = "refund" THEN {<<"Invalid refund address">>}
    ELSE {<<"Treasury wallet not configured">>}
ViolatedChecks(params, treasury) ==
    {i \in 1..5 : Violates(params, treasury, ChecksInOrder[i])}
FirstViolated(params, treasury) ==
    CHOOSE i \in ViolatedChecks(params, treasury) :
        \A j \in ViolatedChecks(params, treasury) : i <= j

\* C21: a createOrder call that violates one of the checks tokens present
\* and distinct, amount positive, provider address well-formed, refund
\* address well-formed if given, treasury configured raises at once with the
\* message of the first check it violates in that order, without waiting for
\* a quote; a call waits for a quote only when it passes all five.
CreateReportsFirstViolation ==
    [][/\ ret'.op = "createOrder" /\ ~ret'.awaited =>
             /\ ViolatedChecks(ret'.params, treasuryWallet) # {}
             /\ tasks' = tasks
             /\ ret'.outcome = "error"
             /\ \E msg \in MessagesOf(
                      ChecksInOrder[FirstViolated(ret'.params, treasuryWallet)]) :
                    ret'.error = <<"Failed to create order: ">> \o msg
        /\ \A task \in BagToSet(tasks') :
             task.op = "createOrder" /\ CopiesIn(task, tasks') > CopiesIn(task, tasks) =>
                 /\ ViolatedChecks(task.params, treasuryWallet) = {}
                 /\ ret' = NoRet]_vars

CreateReportsFirstViolationWitness ==
    /\ ret.op = "createOrder" /\ ret.outcome = "error" /\ ~ret.awaited
    /\ ret.error = <<"Failed to create order: ", "Input amount must be greater than 0">>
    /\ ret.params.liquidityProvider = "bad"
    /\ ret.params.refundAddress = "bad"
    /\ treasuryWallet = ""

\* the order's amount and price impact are those of the quote it carries
MatchesItsQuote(order) ==
    /\ order.quote.outAmount # << >>
    /\ order.expectedOutputAmount = DecimalValue(order.quote.outAmount)
    /\ order.priceImpact = order.quote.priceImpactPct

\* C22: in every reachable state, every stored order (and every order
\* object a suspended call still holds) has the expectedOutputAmount and
\* the priceImpact of the quote attached to it.
QuoteFieldsMoveTogether ==
    /\ \A id \in DOMAIN orders : MatchesItsQuote(orders[id])
    /\ \A ref \in DOMAIN detached : MatchesItsQuote(detached[ref])

QuoteFieldsMoveTogetherWitness ==
    /\ ret.op = "updateOrderQuote" /\ ret.awaited /\ ret.outcome = "ok"
    /\ orders[ret.oid].quote.outAmount = <<"0", "7">>
    /\ orders[ret.oid].expectedOutputAmount = 7
    /\ orders[ret.oid].priceImpact = <<"12.5">>
    /\ InFlight("refreshPendingQuotes") = 1

\* the sum of inputAmount over the orders with these ids
RECURSIVE VolumeOf(_)
VolumeOf(ids) ==
    IF ids = {} THEN 0
    ELSE LET id == CHOOSE x \in ids : TRUE
         IN  orders[id].inputAmount + VolumeOf(ids \ {id})

HavingStatus(status) == {id \in DOMAIN orders : orders[id].status = status}

\* C23: getOrderStats changes nothing, reports the number of stored orders
\* as total, the number of stored orders of each of the statuses pending,
\* fulfilled, failed and cancelled, and the sum of inputAmount over the
\* fulfilled orders as totalVolume; called again right away it reports the
\* same.
StatsCountStoredOrders ==
    [][ret'.op = "getOrderStats" =>
          /\ ret'.outcome = "ok"
          /\ ret'.value.total = Cardinality(DOMAIN orders)
          /\ ret'.value.pending = Cardinality(HavingStatus("pending"))
          /\ ret'.value.fulfilled = Cardinality(HavingStatus("fulfilled"))
          /\ ret'.value.failed = Cardinality(HavingStatus("failed"))
          /\ ret'.value.cancelled = Cardinality(HavingStatus("cancelled"))
          /\ ret'.value.totalVolume = VolumeOf(HavingStatus("fulfilled"))
          /\ ret.op = "getOrderStats" => ret'.value = ret.value
          /\ UNCHANGED <<orders, slots, detached, orderIdCounter, protocolFeeBps,
                         treasuryWallet, mirror, now, tasks, signedTx,
                         submittedTx, handle, swap>>]_vars

StatsCountStoredOrdersWitness ==
    /\ ret.op = "getOrderStats"
    /\ ret.value.total = 2 /\ ret.value.fulfilled = 1 /\ ret.value.failed = 1
    /\ ret.value.totalVolume = 1000000
    /\ \E id \in DOMAIN orders :
          orders[id].status = "failed" /\ orders[id].inputAmount = 150

FiveMinutes == 5 * 60 * 1000

\* C24: getOrdersRequiringAttention returns, each once, exactly the stored
\* orders that are failed or that are pending and were created more than
\* five minutes before the call: a pending order created exactly five
\* minutes before is left out, and so is every fulfilled or cancelled order;
\* the call changes no order.
AttentionListsFailedAndStale ==
    [][ret'.op = "getOrdersRequiringAttention" =>
          /\ {ret'.value[i] : i \in 1..Len(ret'.value)} =
                {id \in DOMAIN orders :
                    \/ orders[id].status = "failed"
                    \/ /\ orders[id].status = "pending"
                       /\ orders[id].timestamp + FiveMinutes < now'}
          /\ Len(ret'.value) = Cardinality({ret'.value[i] : i \in 1..Len(ret'.value)})
          /\ UNCHANGED <<orders, slots, mirror, tasks>>]_vars

AttentionListsFailedAndStaleWitness ==
    /\ ret.op = "getOrdersRequiringAttention"
    /\ now = 600000
    /\ Len(ret.value) = 1
    /\ orders[ret.value[1]].status = "pending"
    /\ orders[ret.value[1]].timestamp = 0
    /\ \E id \in DOMAIN orders :
          orders[id].status = "pending" /\ orders[id].timestamp = 300000
    /\ \E id \in DOMAIN orders : orders[id].status = "pending"

\* C25: when an updateOrderQuote call resumes from its quote fetch on an
\* order that has meanwhile become fulfilled, failed or cancelled, it leaves
\* the order's quote, expectedOutputAmount and priceImpact as they are.
RefreshSparesTerminalOrders ==
    [][\A id \in DOMAIN orders :
          /\ ret'.op = "updateOrderQuote" /\ ret'.awaited /\ ret'.oid = id
          /\ orders[id].status \in Terminal
          => /\ id \in DOMAIN orders'
             /\ orders'[id].quote = orders[id].quote
             /\ orders'[id].expectedOutputAmount = orders[id].expectedOutputAmount
             /\ orders'[id].priceImpact = orders[id].priceImpact]_vars

BulkReplacers == {"createOrder", "importOrders", "clearAllOrders"}

\* C27: the set of ids of the collection, and the set of ids of the
\* mirror, change only in a step of createOrder, importOrders or
\* clearAllOrders: a resumption of executeOrder or updateOrderQuote that was
\* suspended across a clearAllOrders or importOrders puts no order back.
OnlyBulkCallsChangeIds ==
    [][\/ DOMAIN orders' # DOMAIN orders
        \/ DOMAIN loadPersistedOrders(mirror').memory.orders #
               DOMAIN loadPersistedOrders(mirror).memory.orders
        => ret'.op \in BulkReplacers]_vars

\* the result says the confirmation reported an error of the transaction
OnChainErrorReported(result) ==
    /\ result.error # Undefined
    /\ result.error[1] # << >>
    /\ result.error[1][1] = "Transaction failed: "

\* C28: executeOrder leaves an order failed only when its transaction was
\* not accepted by the network or the confirmation reported an on-chain
\* error; not when sendTransaction accepted it and the confirmation call
\* itself failed.
FailedOnlyWithoutEffect ==
    [][ret'.op = "executeOrder" /\ ret'.awaited /\ ret'.oid \in DOMAIN orders'
           /\ orders[ret'.oid].status = "pending"
           /\ orders'[ret'.oid].status = "failed"
        => \/ ~ret'.swap.submitted
           \/ OnChainErrorReported(ret'.swap)]_vars

\* C26: while every call to the quote service, the wallet and the network
\* is answered, an executeOrder call on a pending order eventually returns
\* or raises, and whenever it does the order is fulfilled or failed, not
\* pending.
ExecutionReachesOutcome ==
    /\ [][ret'.op = "executeOrder" /\ ret'.awaited =>
             /\ ret'.outcome \in {"ok", "error"}
             /\ ret'.oid \in DOMAIN orders'
             /\ orders'[ret'.oid].status \in Terminal]_vars
    /\ (InFlight("executeOrder") > 0) ~>
           /\ InFlight("executeOrder") = 0
           /\ ret.op = "executeOrder" /\ ret.awaited
           /\ orders[ret.oid].status \in Terminal

ExecutionReachesOutcomeWitness ==
    /\ ret.op = "executeOrder" /\ ret.awaited /\ ret.outcome = "error"
    /\ orders[ret.oid].status = "failed"
    /\ swap.stage = "returned" /\ swap.oid = ret.oid
    /\ swap.done = <<"getQuote", "derive", "build", "sign", "submit">>
    /\ InFlight("updateOrderQuote") = 1

====
